---- MODULE Spec2Model ----
(***************************************************************************)
(* Model of the saygift-light-bridge: the MqttClient coordinator           *)
(* (mqtt_client.py) and the LightController cloud adapter                  *)
(* (light_controller.py).                                                  *)
(*                                                                         *)
(* Two threads exist: "main" runs the transport loop (loop_forever) and    *)
(* with it the callbacks on_connect / on_disconnect / on_message, one at a *)
(* time; "poll" runs periodic_polling.  A handler is split into steps at   *)
(* its blocking points: the cloud calls, the settle sleep and the          *)
(* acquisition of state_lock.                                              *)
(***************************************************************************)
EXTENDS Integers, Sequences, FiniteSets, TLC

\* ------------------------------------------------------------------ bounds
\* The largest brightness an inbound command carries in the model; the code
\* does not validate the range of the field.
MaxBrightnessIn == 300

\* ------------------------------------------------------- program constants
payload_available == "online"
payload_not_available == "offline"
\* The device's luminance scale is 0..100, Home Assistant's brightness scale
\* is 0..255.
MaxLuminance == 100
MaxBrightness == 255

\* ----------------------------------------------------------------- values
Threads == {"main", "poll"}

\* A DeviceState as get_state returns it; NoState stands for None.
NoState == [state |-> "None", brightness |-> 0]
MkState(s, b) == [state |-> s, brightness |-> b]

\* The brightness field of a command: absent (None), a number, or a value
\* of another JSON type (a string).
BriAbsent == [kind |-> "absent", val |-> 0]
BriStr == [kind |-> "str", val |-> 0]
BriInt(n) == [kind |-> "int", val |-> n]
BrightnessInputs == {0, 128, MaxBrightnessIn}
BriFields == {BriAbsent, BriStr} \cup {BriInt(n) : n \in BrightnessInputs}

\* The luminance key of the write payload: absent or a number.
LumAbsent == [has |-> FALSE, val |-> 0]
LumVal(n) == [has |-> TRUE, val |-> n]

\* Luminance values the cloud reports besides the ones written to it.
LumSamples == {0, 50, 100}

\* --------------------------------------------------------- scale converter
\* Luminances L (0..127) for which the IEEE-754 double L * 2.55 lies just
\* below k + 0.5 although 51L/20 is exactly k + 0.5 (2.55 is stored as
\* 2.54999999999999982...); Python's round() then returns k.  For L = 10 the
\* product is exactly 25.5 and round() returns the even neighbour 26.
HalfBelow == {30, 50, 70, 90, 110}

\* Variant of RoundLum: int() truncation instead of round()
RoundLum_Trunc(luminance) == (51 * luminance) \div 20

\* round(luminance * 2.55), luminance in 0..127
RoundLum(luminance) ==
    IF luminance \in HalfBelow THEN (51 * luminance) \div 20
    ELSE (51 * luminance + 10) \div 20

\* Variant of RoundBri: int() truncation instead of round()
RoundBri_Trunc(brightness) == (100 * brightness) \div 255

\* round(brightness / 2.55): 20b/51 is never a tie, so round is to nearest
RoundBri(brightness) == (40 * brightness + 51) \div 102

Max(a, b) == IF a >= b THEN a ELSE b

\* ------------------------------------------------- LightController.get_state
\* The HTTP exchange of a read: the transport either fails (connection
\* error, timeout, non-2xx status) or delivers a body of one of these shapes.
GetBodies == {"notjson", "nonobject", "flagfalse", "nodata", "datanull",
              "nolum", "lumnull", "lumstr", "lum"}
GetResponses == {[transport |-> "error", body |-> "notjson"]}
                \cup {[transport |-> "ok", body |-> b] : b \in GetBodies}

ReturnNone == [kind |-> "none", state |-> NoState]
Raise == [kind |-> "raise", state |-> NoState]
Return(s) == [kind |-> "state", state |-> s]

\* luminance -> DeviceState (lines 63-72)
ToState(luminance) ==
    LET is_on == luminance > 0
        brightness_255 == IF is_on THEN RoundLum(luminance) ELSE 0
    IN MkState(IF is_on THEN "ON" ELSE "OFF", brightness_255)

GetState(resp, lum) ==
    IF resp.transport = "error" THEN ReturnNone          \* RequestException
    ELSE IF resp.body = "notjson" THEN ReturnNone        \* JSONDecodeError
    ELSE IF resp.body = "nonobject" THEN Raise           \* .get on a non-dict
    ELSE IF resp.body \in {"flagfalse", "nodata"} THEN ReturnNone
    ELSE IF resp.body = "datanull" THEN Raise            \* None.get
    ELSE IF resp.body = "lumnull" THEN Raise             \* int(None)
    ELSE IF resp.body = "lumstr" THEN ReturnNone         \* int("x"): ValueError
    ELSE IF resp.body = "nolum" THEN Return(ToState(0))  \* .get default 0
    ELSE Return(ToState(lum))

\* Variant of BuildPayload: the lower clamp max(1, ...) is missing.
BuildPayload_NoClamp(power, brightness) ==
    IF ~power \/ (brightness.kind = "int" /\ brightness.val = 0)
    THEN [kind |-> "payload", lum |-> LumVal(0)]
    ELSE IF brightness.kind = "str"
    THEN [kind |-> "raise", lum |-> LumAbsent]
    ELSE IF brightness.kind = "int"
    THEN [kind |-> "payload", lum |-> LumVal(RoundBri(brightness.val))]
    ELSE [kind |-> "payload", lum |-> LumAbsent]

\* ------------------------------------------------- LightController.set_state
\* The payload built before the request (lines 98-114); a brightness of the
\* wrong type makes the division raise TypeError before any request is sent.
BuildPayload(power, brightness) ==
    IF ~power \/ (brightness.kind = "int" /\ brightness.val = 0)
    THEN [kind |-> "payload", lum |-> LumVal(0)]
    ELSE IF brightness.kind = "str"
    THEN [kind |-> "raise", lum |-> LumAbsent]
    ELSE IF brightness.kind = "int"
    THEN [kind |-> "payload", lum |-> LumVal(Max(1, RoundBri(brightness.val)))]
    ELSE [kind |-> "payload", lum |-> LumAbsent]

SetBodies == {"notjson", "nonobject", "flagfalse", "flagtrue"}
SetResponses == {[transport |-> "error", body |-> "notjson"]}
                \cup {[transport |-> "ok", body |-> b] : b \in SetBodies}

\* The outcome of the request and its decoding (lines 116-137)
SetStateResult(resp) ==
    IF resp.transport = "error" THEN "false"
    ELSE IF resp.body = "notjson" THEN "false"
    ELSE IF resp.body = "nonobject" THEN "raise"
    ELSE IF resp.body = "flagtrue" THEN "true"
    ELSE "false"

\* ------------------------------------------------------ command payloads
\* The payloads delivered in the model: bytes that are not UTF-8, text that
\* is not JSON, JSON that is not an object, and objects whose state field is
\* "ON", "on", "OFF", absent or not a string.
StateFields == {"on", "absent", "nonstring"}
Payloads == {[kind |-> k, state |-> "absent", brightness |-> BriAbsent] :
                k \in {"badutf8", "badjson", "nonobject"}}
            \cup {[kind |-> "object", state |-> s, brightness |-> BriAbsent] :
                s \in StateFields}
            \cup {[kind |-> "object", state |-> s, brightness |-> b] :
                s \in {"ON", "OFF"}, b \in BriFields}

\* payload.get("state", "OFF").upper()
Upper(s) == IF s = "absent" THEN "OFF" ELSE IF s = "on" THEN "ON" ELSE s

\* How far lines 77-85 get with a payload
ParseCommand(p) ==
    IF p.kind = "badutf8" THEN "decode_error"       \* line 77, outside try
    ELSE IF p.kind = "badjson" THEN "json_error"    \* line 81 -> line 101
    ELSE IF p.kind = "nonobject" THEN "error"       \* line 84 -> line 103
    ELSE IF p.state = "nonstring" THEN "error"      \* .upper() -> line 103
    ELSE "ok"

\* ------------------------------------------------------------------ state
VARIABLES
    pc,             \* position of each thread
    handler,        \* the callback the main thread is in
    state_lock,     \* "free" or the thread holding it
    current_state,  \* publish_state's local, per thread
    cloud,          \* the luminance the cloud holds for the device
    state_topic,    \* last message published on the state topic
    availability,   \* last message published on the availability topic
    will,           \* the registered last-will
    subscribed,     \* command topic subscribed on this connection
    connected,      \* the broker accepted the connection
    reconnected,    \* a disconnect has happened
    retain,         \* config.mqtt.retain
    cmd,            \* the command being handled by on_message
    connLog,        \* what the running on_connect has done, in order
    lastGood,       \* the state the last successful get_state returned
    topicBefore,    \* state_topic when the thread entered publish_state
    msg,            \* the payload on_message has been called with
    escaped,        \* an exception left get_state / set_state in the thread
    response        \* the status response current_state was built from

vars == <<pc, handler, state_lock, current_state, cloud, state_topic,
          availability, will, subscribed, connected, reconnected, retain,
          cmd, connLog, lastGood, topicBefore, msg, escaped, response>>

NoMsg == [payload |-> "none", retain |-> FALSE]
NoResponse == [transport |-> "none", body |-> "none"]
NoPayload == [kind |-> "none", state |-> "absent", brightness |-> BriAbsent]

CmdNone == [power |-> FALSE, brightness |-> BriAbsent, lum |-> LumAbsent,
            sent |-> FALSE, result |-> "none", settled |-> FALSE,
            refreshes |-> 0, gets |-> 0, pubs |-> 0]

Init ==
    /\ pc = [t \in Threads |-> IF t = "main" THEN "created" ELSE "notstarted"]
    /\ handler = "none"
    /\ state_lock = "free"
    /\ current_state = [t \in Threads |-> NoState]
    /\ cloud \in LumSamples
    /\ state_topic = NoState
    /\ availability = NoMsg
    /\ will = NoMsg
    /\ subscribed = FALSE
    /\ connected = FALSE
    /\ reconnected = FALSE
    /\ retain \in BOOLEAN
    /\ cmd = CmdNone
    /\ connLog = <<>>
    /\ lastGood = NoState
    /\ topicBefore = [t \in Threads |-> NoState]
    /\ msg = NoPayload
    /\ escaped = [t \in Threads |-> FALSE]
    /\ response = NoResponse

\* -------------------------------------------------------- MqttClient.start
\* will_set, connect, start of the polling thread, loop_forever.  A refused
\* connection leaves start() before the polling thread exists.
Start ==
    /\ pc["main"] = "created"
    /\ will' = [payload |-> payload_not_available, retain |-> retain]
    /\ \E refused \in BOOLEAN :
          pc' = IF refused
                THEN [pc EXCEPT !["main"] = "exited"]
                ELSE [pc EXCEPT !["main"] = "idle", !["poll"] = "sleep"]
    /\ UNCHANGED <<handler, state_lock, current_state, cloud, state_topic,
                   availability, subscribed, connected, reconnected, retain,
                   cmd, connLog, lastGood, topicBefore, msg, escaped,
                   response>>

\* Variant of OnConnect: the subscription is made on the first connect only.
OnConnect_SubscribeOnce(rc) ==
    /\ pc["main"] = "idle"
    /\ ~connected
    /\ IF rc = 0
       THEN /\ connected' = TRUE
            /\ subscribed' = ~reconnected
            /\ availability' = [payload |-> payload_available,
                                retain |-> retain]
            /\ connLog' = IF reconnected THEN <<"availability">>
                          ELSE <<"subscribe", "availability">>
            /\ handler' = "connect"
            /\ pc' = [pc EXCEPT !["main"] = "ps_acquire"]
       ELSE UNCHANGED <<connected, subscribed, availability, connLog,
                        handler, pc>>
    /\ UNCHANGED <<state_lock, current_state, cloud, state_topic, will,
                   reconnected, retain, cmd, lastGood, topicBefore, msg,
                   escaped, response>>

\* --------------------------------------------------- MqttClient.on_connect
RCs == {0, 5}

\* rc = 0: subscribe, announce availability, then publish_state (line 64);
\* any other rc is logged only.
OnConnect(rc) ==
    /\ pc["main"] = "idle"
    /\ ~connected
    /\ IF rc = 0
       THEN /\ connected' = TRUE
            /\ subscribed' = TRUE
            /\ availability' = [payload |-> payload_available,
                                retain |-> retain]
            /\ connLog' = <<"subscribe", "availability">>
            /\ handler' = "connect"
            /\ pc' = [pc EXCEPT !["main"] = "ps_acquire"]
       ELSE UNCHANGED <<connected, subscribed, availability, connLog,
                        handler, pc>>
    /\ UNCHANGED <<state_lock, current_state, cloud, state_topic, will,
                   reconnected, retain, cmd, lastGood, topicBefore, msg,
                   escaped, response>>

\* ------------------------------------------------ MqttClient.on_disconnect
OnDisconnect ==
    /\ pc["main"] = "idle"
    /\ connected
    /\ connected' = FALSE
    /\ subscribed' = FALSE
    /\ reconnected' = TRUE
    /\ UNCHANGED <<pc, handler, state_lock, current_state, cloud,
                   state_topic, availability, will, retain, cmd, connLog,
                   lastGood, topicBefore, msg, escaped, response>>

\* --------------------------------------------------- MqttClient.on_message
\* Variant of Deliver: the transport hands a message to on_message while an
\* earlier callback is still running.
Deliver_Anytime(p) ==
    /\ pc["main"] \notin {"created", "exited", "crashed"}
    /\ connected /\ subscribed
    /\ msg' = p
    /\ handler' = "message"
    /\ pc' = [pc EXCEPT !["main"] = "om_entry"]
    /\ UNCHANGED <<state_lock, current_state, cloud, state_topic,
                   availability, will, subscribed, connected, reconnected,
                   retain, cmd, connLog, lastGood, topicBefore, escaped,
                   response>>

\* The transport calls on_message with a payload from the command topic.
Deliver(p) ==
    /\ pc["main"] = "idle"
    /\ connected /\ subscribed
    /\ msg' = p
    /\ handler' = "message"
    /\ pc' = [pc EXCEPT !["main"] = "om_entry"]
    /\ UNCHANGED <<state_lock, current_state, cloud, state_topic,
                   availability, will, subscribed, connected, reconnected,
                   retain, cmd, connLog, lastGood, topicBefore, escaped,
                   response>>

\* Lines 77-88 up to the request of set_state: decode, parse, extract the
\* fields, build the write payload.
OnMessage ==
    /\ pc["main"] = "om_entry"
    /\ LET parsed == ParseCommand(msg)
           power == Upper(msg.state) = "ON"
           built == BuildPayload(power, msg.brightness)
       IN IF parsed = "decode_error"
          THEN \* UnicodeDecodeError leaves on_message and the transport loop
               /\ pc' = [pc EXCEPT !["main"] = "crashed"]
               /\ cmd' = cmd
          ELSE IF parsed # "ok"
          THEN \* logged at line 102 or 104
               /\ pc' = [pc EXCEPT !["main"] = "return"]
               /\ cmd' = cmd
          ELSE IF built.kind = "raise"
          THEN \* TypeError inside set_state, caught at line 103
               /\ pc' = [pc EXCEPT !["main"] = "return"]
               /\ cmd' = [cmd EXCEPT !.power = power,
                                     !.brightness = msg.brightness,
                                     !.result = "raise"]
          ELSE /\ pc' = [pc EXCEPT !["main"] = "om_post"]
               /\ cmd' = [cmd EXCEPT !.power = power,
                                     !.brightness = msg.brightness,
                                     !.lum = built.lum,
                                     !.sent = TRUE]
    /\ msg' = NoPayload
    /\ UNCHANGED <<handler, state_lock, current_state, cloud, state_topic,
                   availability, will, subscribed, connected, reconnected,
                   retain, connLog, lastGood, topicBefore, escaped, response>>

\* What the cloud holds after it accepted a write
NewCloud(lum) ==
    IF lum.has THEN {lum.val}
    ELSE IF cloud > 0 THEN {cloud}
    ELSE LumSamples \ {0}

\* Variant of SetResponse: the state topic is updated from the command as
\* soon as the write succeeded.
SetResponse_Optimistic(resp) ==
    /\ pc["main"] = "om_post"
    /\ LET success == SetStateResult(resp)
       IN /\ cmd' = [cmd EXCEPT !.result = success]
          /\ escaped' = [escaped EXCEPT !["main"] = (success = "raise")]
          /\ IF success = "true"
             THEN /\ cloud' \in NewCloud(cmd.lum)
                  /\ pc' = [pc EXCEPT !["main"] = "om_sleep"]
                  /\ state_topic' =
                        MkState(IF cmd.power THEN "ON" ELSE "OFF",
                                IF cmd.power THEN cmd.brightness.val ELSE 0)
             ELSE /\ cloud' = cloud
                  /\ pc' = [pc EXCEPT !["main"] = "return"]
                  /\ state_topic' = state_topic
    /\ UNCHANGED <<handler, state_lock, current_state,
                   availability, will, subscribed, connected, reconnected,
                   retain, connLog, lastGood, topicBefore, msg, response>>

\* Variant of SetResponse: the refresh follows whatever set_state returned.
SetResponse_IgnoreFailure(resp) ==
    /\ pc["main"] = "om_post"
    /\ LET success == SetStateResult(resp)
       IN /\ cmd' = [cmd EXCEPT !.result = success]
          /\ escaped' = [escaped EXCEPT !["main"] = (success = "raise")]
          /\ IF success = "true"
             THEN /\ cloud' \in NewCloud(cmd.lum)
                  /\ pc' = [pc EXCEPT !["main"] = "om_sleep"]
             ELSE /\ cloud' = cloud
                  /\ pc' = [pc EXCEPT !["main"] =
                              IF success = "false" THEN "om_sleep"
                              ELSE "return"]
    /\ UNCHANGED <<handler, state_lock, current_state, state_topic,
                   availability, will, subscribed, connected, reconnected,
                   retain, connLog, lastGood, topicBefore, msg, response>>

\* Variant of SetResponse: publish_state is called without the settle sleep.
SetResponse_NoSettle(resp) ==
    /\ pc["main"] = "om_post"
    /\ LET success == SetStateResult(resp)
       IN /\ cmd' = [cmd EXCEPT !.result = success,
                                !.refreshes = IF success = "true"
                                              THEN @ + 1 ELSE @]
          /\ escaped' = [escaped EXCEPT !["main"] = (success = "raise")]
          /\ IF success = "true"
             THEN /\ cloud' \in NewCloud(cmd.lum)
                  /\ pc' = [pc EXCEPT !["main"] = "ps_acquire"]
             ELSE /\ cloud' = cloud
                  /\ pc' = [pc EXCEPT !["main"] = "return"]
    /\ UNCHANGED <<handler, state_lock, current_state, state_topic,
                   availability, will, subscribed, connected, reconnected,
                   retain, connLog, lastGood, topicBefore, msg, response>>

\* The response to set_state's request, and lines 90-99 of on_message
SetResponse(resp) ==
    /\ pc["main"] = "om_post"
    /\ LET success == SetStateResult(resp)
       IN /\ cmd' = [cmd EXCEPT !.result = success]
          /\ escaped' = [escaped EXCEPT !["main"] = (success = "raise")]
          /\ IF success = "true"
             THEN /\ cloud' \in NewCloud(cmd.lum)
                  /\ pc' = [pc EXCEPT !["main"] = "om_sleep"]
             ELSE /\ cloud' = cloud
                  /\ pc' = [pc EXCEPT !["main"] = "return"]
    /\ UNCHANGED <<handler, state_lock, current_state, state_topic,
                   availability, will, subscribed, connected, reconnected,
                   retain, connLog, lastGood, topicBefore, msg, response>>

\* time.sleep(1.5) is over; publish_state is called
Settle ==
    /\ pc["main"] = "om_sleep"
    /\ cmd' = [cmd EXCEPT !.settled = TRUE, !.refreshes = @ + 1]
    /\ pc' = [pc EXCEPT !["main"] = "ps_acquire"]
    /\ UNCHANGED <<handler, state_lock, current_state, cloud, state_topic,
                   availability, will, subscribed, connected, reconnected,
                   retain, connLog, lastGood, topicBefore, msg, escaped,
                   response>>

\* The callback returns to the transport loop
MainReturn ==
    /\ pc["main"] = "return"
    /\ pc' = [pc EXCEPT !["main"] = "idle"]
    /\ handler' = "none"
    /\ cmd' = CmdNone
    /\ connLog' = <<>>
    /\ escaped' = [escaped EXCEPT !["main"] = FALSE]
    /\ UNCHANGED <<state_lock, current_state, cloud, state_topic,
                   availability, will, subscribed, connected, reconnected,
                   retain, lastGood, topicBefore, msg, response>>

\* ------------------------------------------- MqttClient.periodic_polling
\* time.sleep(polling_interval) is over; publish_state is called
Tick ==
    /\ pc["poll"] = "sleep"
    /\ pc' = [pc EXCEPT !["poll"] = "ps_acquire"]
    /\ UNCHANGED <<handler, state_lock, current_state, cloud, state_topic,
                   availability, will, subscribed, connected, reconnected,
                   retain, cmd, connLog, lastGood, topicBefore, msg, escaped,
                   response>>

\* ------------------------------------------------ MqttClient.publish_state
\* Variant of PsAcquire: the section is entered without waiting for the lock.
PsAcquire_NoLock(t) ==
    /\ pc[t] = "ps_acquire"
    /\ state_lock' = t
    /\ topicBefore' = [topicBefore EXCEPT ![t] = state_topic]
    /\ pc' = [pc EXCEPT ![t] = "ps_get"]
    /\ UNCHANGED <<handler, current_state, cloud, state_topic, availability,
                   will, subscribed, connected, reconnected, retain, cmd,
                   connLog, lastGood, msg, escaped, response>>

\* Variant of PsAcquire: a non-blocking acquire; when another invocation
\* holds the lock this one is dropped.
PsAcquire_Coalesce(t) ==
    /\ pc[t] = "ps_acquire"
    /\ IF state_lock = "free"
       THEN /\ state_lock' = t
            /\ topicBefore' = [topicBefore EXCEPT ![t] = state_topic]
            /\ pc' = [pc EXCEPT ![t] = "ps_get"]
       ELSE /\ UNCHANGED <<state_lock, topicBefore>>
            /\ pc' = [pc EXCEPT ![t] = IF t = "poll" THEN "sleep"
                                       ELSE "return"]
    /\ UNCHANGED <<handler, current_state, cloud, state_topic, availability,
                   will, subscribed, connected, reconnected, retain, cmd,
                   connLog, lastGood, msg, escaped, response>>

\* with self.state_lock: blocks until the lock is free
PsAcquire(t) ==
    /\ pc[t] = "ps_acquire"
    /\ state_lock = "free"
    /\ state_lock' = t
    /\ topicBefore' = [topicBefore EXCEPT ![t] = state_topic]
    /\ pc' = [pc EXCEPT ![t] = "ps_get"]
    /\ UNCHANGED <<handler, current_state, cloud, state_topic, availability,
                   will, subscribed, connected, reconnected, retain, cmd,
                   connLog, lastGood, msg, escaped, response>>

\* Where an exception that leaves publish_state takes the thread: the
\* polling loop has no handler, on_connect has none, on_message catches it.
AfterException(t) ==
    IF t = "poll" THEN "dead"
    ELSE IF handler = "message" THEN "return"
    ELSE "crashed"

\* Variant of PsGet: the lock is taken and released by hand, and an
\* exception from get_state skips the release.
PsGet_KeepLockOnRaise(t, resp) ==
    /\ pc[t] = "ps_get"
    /\ LET r == GetState(resp, cloud)
       IN /\ current_state' = [current_state EXCEPT ![t] = r.state]
          /\ escaped' = [escaped EXCEPT ![t] = (r.kind = "raise")]
          /\ response' = IF r.kind = "state" THEN resp ELSE NoResponse
          /\ lastGood' = IF r.kind = "state" THEN r.state ELSE lastGood
          /\ state_lock' = state_lock
          /\ pc' = [pc EXCEPT ![t] = IF r.kind = "raise"
                                     THEN AfterException(t)
                                     ELSE IF r.kind = "state"
                                     THEN "ps_publish"
                                     ELSE "ps_release"]
    /\ cmd' = IF t = "main" /\ handler = "message"
              THEN [cmd EXCEPT !.gets = @ + 1] ELSE cmd
    /\ connLog' = IF t = "main" /\ handler = "connect"
                  THEN Append(connLog, "get_state") ELSE connLog
    /\ UNCHANGED <<handler, cloud, state_topic, availability, will,
                   subscribed, connected, reconnected, retain, topicBefore,
                   msg>>

\* Variant of PsGet: a None from get_state is published like a state.
PsGet_PublishNone(t, resp) ==
    /\ pc[t] = "ps_get"
    /\ LET r == GetState(resp, cloud)
       IN /\ current_state' = [current_state EXCEPT ![t] = r.state]
          /\ escaped' = [escaped EXCEPT ![t] = (r.kind = "raise")]
          /\ response' = IF r.kind = "state" THEN resp ELSE NoResponse
          /\ lastGood' = IF r.kind = "state" THEN r.state ELSE lastGood
          /\ IF r.kind = "raise"
             THEN /\ state_lock' = "free"
                  /\ pc' = [pc EXCEPT ![t] = AfterException(t)]
             ELSE /\ state_lock' = state_lock
                  /\ pc' = [pc EXCEPT ![t] = "ps_publish"]
    /\ cmd' = IF t = "main" /\ handler = "message"
              THEN [cmd EXCEPT !.gets = @ + 1] ELSE cmd
    /\ connLog' = IF t = "main" /\ handler = "connect"
                  THEN Append(connLog, "get_state") ELSE connLog
    /\ UNCHANGED <<handler, cloud, state_topic, availability, will,
                   subscribed, connected, reconnected, retain, topicBefore,
                   msg>>

\* current_state = self.controller.get_state(), with the cloud's response
PsGet(t, resp) ==
    /\ pc[t] = "ps_get"
    /\ LET r == GetState(resp, cloud)
       IN /\ current_state' = [current_state EXCEPT ![t] = r.state]
          /\ escaped' = [escaped EXCEPT ![t] = (r.kind = "raise")]
          /\ response' = IF r.kind = "state" THEN resp ELSE NoResponse
          /\ lastGood' = IF r.kind = "state" THEN r.state ELSE lastGood
          /\ IF r.kind = "raise"
             THEN /\ state_lock' = "free"
                  /\ pc' = [pc EXCEPT ![t] = AfterException(t)]
             ELSE /\ state_lock' = state_lock
                  /\ pc' = [pc EXCEPT ![t] = IF r.kind = "state"
                                             THEN "ps_publish"
                                             ELSE "ps_release"]
    /\ cmd' = IF t = "main" /\ handler = "message"
              THEN [cmd EXCEPT !.gets = @ + 1] ELSE cmd
    /\ connLog' = IF t = "main" /\ handler = "connect"
                  THEN Append(connLog, "get_state") ELSE connLog
    /\ UNCHANGED <<handler, cloud, state_topic, availability, will,
                   subscribed, connected, reconnected, retain, topicBefore,
                   msg>>

\* Variant of PsPublish: only a change is published in full; a state equal
\* to the message already on the topic is published as an empty update.
PsPublish_DeltaOnly(t) ==
    /\ pc[t] = "ps_publish"
    /\ state_topic' = IF current_state[t] = state_topic
                      THEN MkState("unchanged", 0)
                      ELSE current_state[t]
    /\ pc' = [pc EXCEPT ![t] = "ps_release"]
    /\ cmd' = IF t = "main" /\ handler = "message"
              THEN [cmd EXCEPT !.pubs = @ + 1] ELSE cmd
    /\ connLog' = IF t = "main" /\ handler = "connect"
                  THEN Append(connLog, "publish") ELSE connLog
    /\ UNCHANGED <<handler, state_lock, current_state, cloud, availability,
                   will, subscribed, connected, reconnected, retain,
                   lastGood, topicBefore, msg, escaped, response>>

\* self.client.publish(self.state_topic, json.dumps(current_state), ...)
PsPublish(t) ==
    /\ pc[t] = "ps_publish"
    /\ state_topic' = current_state[t]
    /\ pc' = [pc EXCEPT ![t] = "ps_release"]
    /\ cmd' = IF t = "main" /\ handler = "message"
              THEN [cmd EXCEPT !.pubs = @ + 1] ELSE cmd
    /\ connLog' = IF t = "main" /\ handler = "connect"
                  THEN Append(connLog, "publish") ELSE connLog
    /\ UNCHANGED <<handler, state_lock, current_state, cloud, availability,
                   will, subscribed, connected, reconnected, retain,
                   lastGood, topicBefore, msg, escaped, response>>

\* end of the with block
PsRelease(t) ==
    /\ pc[t] = "ps_release"
    /\ state_lock' = "free"
    /\ pc' = [pc EXCEPT ![t] = IF t = "poll" THEN "sleep" ELSE "return"]
    /\ current_state' = [current_state EXCEPT ![t] = NoState]
    /\ topicBefore' = [topicBefore EXCEPT ![t] = NoState]
    /\ response' = NoResponse
    /\ UNCHANGED <<handler, cloud, state_topic, availability, will,
                   subscribed, connected, reconnected, retain, cmd, connLog,
                   lastGood, msg, escaped>>

\* ------------------------------------------------------------ environment
\* The device is changed through the vendor's own application
CloudChange(v) ==
    /\ v # cloud
    /\ cloud' = v
    /\ UNCHANGED <<pc, handler, state_lock, current_state, state_topic,
                   availability, will, subscribed, connected, reconnected,
                   retain, cmd, connLog, lastGood, topicBefore, msg, escaped,
                   response>>

Next ==
    \/ Start
    \/ \E rc \in RCs : OnConnect(rc)
    \/ OnDisconnect
    \/ \E p \in Payloads : Deliver(p)
    \/ OnMessage
    \/ \E resp \in SetResponses : SetResponse(resp)
    \/ Settle
    \/ MainReturn
    \/ Tick
    \/ \E t \in Threads : PsAcquire(t)
    \/ \E t \in Threads, resp \in GetResponses : PsGet(t, resp)
    \/ \E t \in Threads : PsPublish(t)
    \/ \E t \in Threads : PsRelease(t)
    \/ \E v \in LumSamples : CloudChange(v)

Spec == Init /\ [][Next]_vars

\* ================================================================ claims

\* Thread t is inside the get_state-then-publish section of publish_state
InSection(t) == pc[t] \in {"ps_get", "ps_publish", "ps_release"}

\* C1: at most one publish_state invocation is inside its read-then-publish
\* section at any moment, and the one inside holds state_lock.
C1_MutualExclusion ==
    /\ \A t1, t2 \in Threads : InSection(t1) /\ InSection(t2) => t1 = t2
    /\ \A t \in Threads : InSection(t) => state_lock = t

\* The polling thread is between its read and its release while a
\* command-triggered refresh waits for the lock.
C1_Witness ==
    /\ pc["poll"] = "ps_publish"
    /\ pc["main"] = "ps_acquire"
    /\ handler = "message"

C3_LuminanceInRange ==
    cmd.sent =>
        /\ (cmd.power /\ cmd.brightness.kind = "int"
                /\ cmd.brightness.val # 0)
              => (cmd.lum.has /\ cmd.lum.val \in 1..100)
        /\ (cmd.lum.has /\ cmd.lum.val = 0)
              => (~cmd.power \/ cmd.brightness = BriInt(0))

\* C4: no exception raised while performing or decoding a cloud call leaves
\* get_state or set_state.
C4_NoExceptionEscapes == \A t \in Threads : ~escaped[t]

\* C5: the periodic polling task never stops.
C5_PollingNeverStops == pc["poll"] # "dead"

\* A payload that is not parseable as the expected structure
Malformed(p) == ParseCommand(p) # "ok"

\* C6: on_message, called with a malformed payload, makes no set_state call
\* and no publish, changes no state and returns normally to the transport
\* loop.
C6_MalformedDropped ==
    [][(pc["main"] = "om_entry" /\ Malformed(msg)
            /\ pc'["main"] # "om_entry")
         => /\ pc'["main"] = "return"
            /\ cmd' = CmdNone
            /\ UNCHANGED <<cloud, state_topic, availability, state_lock,
                           lastGood>>]_vars

\* C7: while on_connect runs after a connect with rc = 0, it has subscribed
\* to the command topic, then published the available payload, and after
\* these it performs one state poll (get_state, then the publish if a state
\* was returned); nothing else and no other order.
C7_ConnectOrder ==
    handler = "connect" =>
        /\ subscribed
        /\ availability.payload = payload_available
        /\ Len(connLog) >= 2
        /\ connLog[1] = "subscribe" /\ connLog[2] = "availability"
        /\ pc["main"] \in {"ps_acquire", "ps_get"} => Len(connLog) = 2
        /\ pc["main"] \in {"ps_publish", "crashed"}
              => connLog = <<"subscribe", "availability", "get_state">>
        /\ pc["main"] \in {"ps_release", "return"}
              => \/ connLog = <<"subscribe", "availability", "get_state">>
                 \/ connLog = <<"subscribe", "availability", "get_state",
                                "publish">>

\* on_connect has finished on a reconnect, having done all three in order.
C7_Witness ==
    /\ handler = "connect"
    /\ reconnected
    /\ pc["main"] = "return"
    /\ connLog = <<"subscribe", "availability", "get_state", "publish">>

\* C8: when set_state returned False, the handling of the command calls
\* neither publish_state nor get_state and publishes nothing.
C8_FailureNoRefresh ==
    cmd.result = "false" =>
        /\ pc["main"] = "return"
        /\ cmd.refreshes = 0 /\ cmd.gets = 0 /\ cmd.pubs = 0
        /\ ~cmd.settled

\* set_state has returned False for a command that was sent to the cloud.
C8_Witness ==
    /\ cmd.result = "false"
    /\ cmd.sent
    /\ pc["main"] = "return"

\* C9: when set_state returned True, on_message sleeps the settle delay and
\* then calls publish_state exactly once; get_state is called only after the
\* write has succeeded and the delay is over.
C9_SuccessRefresh ==
    /\ cmd.refreshes <= 1 /\ cmd.gets <= 1
    /\ (handler = "message" /\ (InSection("main")
            \/ pc["main"] = "ps_acquire" \/ cmd.gets > 0
            \/ cmd.refreshes > 0))
          => (cmd.result = "true" /\ cmd.settled)
    /\ (cmd.result = "true" /\ pc["main"] = "return")
          => (cmd.refreshes = 1 /\ cmd.gets = 1 /\ cmd.settled)
    /\ (cmd.result = "true" /\ ~cmd.settled) => pc["main"] = "om_sleep"

\* A successful command has been handled to the end, with one refresh.
C9_Witness ==
    /\ cmd.result = "true"
    /\ pc["main"] = "return"
    /\ cmd.refreshes = 1 /\ cmd.gets = 1 /\ cmd.pubs = 1

\* C10: when get_state fails inside publish_state (returns None or raises),
\* that invocation publishes nothing: the message on the state topic stays
\* the one of the last successful poll.
C10_FailureNoPublish ==
    [][\A t \in Threads :
          (\/ pc[t] = "ps_get" /\ pc'[t] # "ps_get"
                /\ current_state'[t] = NoState
           \/ pc[t] \in {"ps_publish", "ps_release"}
                /\ current_state[t] = NoState)
          => (state_topic' = state_topic /\ state_topic' = lastGood')]_vars

\* The polling thread is leaving publish_state after a failed read while the
\* state topic still shows ON and the device is in fact off.
C10_Witness ==
    /\ pc["poll"] = "ps_release"
    /\ current_state["poll"] = NoState
    /\ state_topic.state = "ON"
    /\ cloud = 0

\* C11: state_lock is held only by a thread that is inside publish_state:
\* once publish_state has returned or has been left by an exception, the
\* lock is free of that thread.
C11_LockReleased ==
    \A t \in Threads : state_lock = t => InSection(t)

\* The polling thread has left publish_state by an exception of get_state
\* and the lock is free.
C11_Witness ==
    /\ escaped["poll"]
    /\ pc["poll"] = "dead"
    /\ state_lock = "free"

\* C12: the available payload published on connect and the registered
\* last-will are sent with the retained flag set, whatever config.mqtt.retain
\* is.
C12_AvailabilityRetained ==
    /\ availability # NoMsg => availability.retain
    /\ will # NoMsg => will.retain

\* ===================================================== the scale converter
\* A second specification applies set_state's payload construction and
\* get_state's conversion to every value of the two scales: either get_state
\* reads a luminance in 0..MaxLuminance, or a command (power, brightness) is
\* turned into a write payload, the cloud stores the luminance written, and
\* a successful poll reads it back and publishes it.
ConvBrightness == {BriAbsent} \cup {BriInt(n) : n \in 0..MaxBrightnessIn}

LumResponse == [transport |-> "ok", body |-> "lum"]

ConvInit ==
    /\ pc = [t \in Threads |-> "conv"]
    /\ handler = "none"
    /\ state_lock = "free"
    /\ current_state = [t \in Threads |-> NoState]
    /\ state_topic = NoState
    /\ availability = NoMsg
    /\ will = NoMsg
    /\ subscribed = FALSE
    /\ connected = FALSE
    /\ reconnected = FALSE
    /\ retain = TRUE
    /\ connLog = <<>>
    /\ lastGood = NoState
    /\ topicBefore = [t \in Threads |-> NoState]
    /\ msg = NoPayload
    /\ escaped = [t \in Threads |-> FALSE]
    /\ response = NoResponse
    /\ \/ /\ cloud \in 0..MaxLuminance
          /\ cmd = CmdNone
       \/ /\ cloud = 0
          /\ \E power \in BOOLEAN, brightness \in ConvBrightness :
                cmd = [CmdNone EXCEPT !.power = power,
                                      !.brightness = brightness]

\* set_state builds the write payload (lines 98-114)
ConvSetState ==
    /\ pc["main"] = "conv" /\ pc["poll"] = "conv"
    /\ LET built == BuildPayload(cmd.power, cmd.brightness)
       IN cmd' = [cmd EXCEPT !.lum = built.lum, !.sent = TRUE]
    /\ pc' = [pc EXCEPT !["main"] = "conv_sent"]
    /\ UNCHANGED <<handler, state_lock, current_state, cloud, state_topic,
                   availability, will, subscribed, connected, reconnected,
                   retain, connLog, lastGood, topicBefore, msg, escaped,
                   response>>

\* The cloud accepts the write and stores the luminance of the payload
ConvWrite ==
    /\ pc["main"] = "conv_sent"
    /\ cmd.lum.has
    /\ cloud' = cmd.lum.val
    /\ cmd' = [cmd EXCEPT !.result = "true"]
    /\ pc' = [pc EXCEPT !["main"] = "conv_written"]
    /\ UNCHANGED <<handler, state_lock, current_state, state_topic,
                   availability, will, subscribed, connected, reconnected,
                   retain, connLog, lastGood, topicBefore, msg, escaped,
                   response>>

\* The refresh after the command: get_state reads the luminance back and
\* publish_state publishes the state
ConvReadBack ==
    /\ pc["main"] = "conv_written"
    /\ LET r == GetState(LumResponse, cloud)
       IN /\ current_state' = [current_state EXCEPT !["main"] = r.state]
          /\ state_topic' = r.state
          /\ lastGood' = r.state
    /\ pc' = [pc EXCEPT !["main"] = "conv_done"]
    /\ UNCHANGED <<handler, state_lock, cloud, availability, will,
                   subscribed, connected, reconnected, retain, cmd, connLog,
                   topicBefore, msg, escaped, response>>

\* get_state converts the luminance the cloud reports (lines 61-74)
ConvGetState ==
    /\ pc["poll"] = "conv" /\ pc["main"] = "conv"
    /\ LET r == GetState(LumResponse, cloud)
       IN current_state' = [current_state EXCEPT !["poll"] = r.state]
    /\ pc' = [pc EXCEPT !["poll"] = "conv_read"]
    /\ UNCHANGED <<handler, state_lock, cloud, state_topic, availability,
                   will, subscribed, connected, reconnected, retain, cmd,
                   connLog, lastGood, topicBefore, msg, escaped, response>>

ConvNext ==
    \/ ConvSetState
    \/ ConvWrite
    \/ ConvReadBack
    \/ ConvGetState

ConvSpec == ConvInit /\ [][ConvNext]_vars

Abs(x) == IF x >= 0 THEN x ELSE -x

\* l is an integer nearest to b / 2.55 (= 100b/255)
NearestToBri(l, b) == 2 * Abs(255 * l - 100 * b) <= 255

\* b is an integer nearest to l * 2.55 (= 51l/20)
NearestToLum(b, l) == Abs(20 * b - 51 * l) <= 10

\* C13: the luminance of the write payload is 0 when power is false or the
\* brightness is given and 0; max(1, round(brightness / 2.55)) when power is
\* true and the brightness is given and positive; absent when power is true
\* and no brightness is given.
C13_PayloadLuminance ==
    pc["main"] = "conv_sent" =>
        IF ~cmd.power \/ cmd.brightness = BriInt(0)
        THEN cmd.lum = LumVal(0)
        ELSE IF cmd.brightness.kind = "int"
        THEN /\ cmd.lum.has
             /\ IF NearestToBri(0, cmd.brightness.val)
                THEN cmd.lum.val = 1
                ELSE NearestToBri(cmd.lum.val, cmd.brightness.val)
        ELSE cmd.lum = LumAbsent

\* {ON, brightness 1}: round(1 / 2.55) is 0 and the clamp makes it 1.
C13_Witness ==
    /\ pc["main"] = "conv_sent"
    /\ cmd.power /\ cmd.brightness = BriInt(1)
    /\ cmd.lum = LumVal(1)

\* C14: for a luminance L in 1..100 get_state reports ON with the brightness
\* round(L * 2.55), which is in 1..255; for luminance 0 it reports OFF with
\* brightness 0.
C14_StateOfLuminance ==
    pc["poll"] = "conv_read" =>
        IF cloud = 0
        THEN current_state["poll"] = MkState("OFF", 0)
        ELSE /\ current_state["poll"].state = "ON"
             /\ current_state["poll"].brightness \in 1..MaxBrightness
             /\ NearestToLum(current_state["poll"].brightness, cloud)

\* Luminance 100 is reported as ON with brightness 255.
C14_Witness ==
    /\ pc["poll"] = "conv_read"
    /\ cloud = MaxLuminance
    /\ current_state["poll"] = MkState("ON", MaxBrightness)

\* The command {ON, B} with B in 1..MaxBrightness has been written and read
\* back
RoundTripDone ==
    /\ pc["main"] = "conv_done"
    /\ cmd.power
    /\ cmd.brightness.kind = "int"
    /\ cmd.brightness.val \in 1..MaxBrightness

\* C15 as stated: the brightness read back is ON and within 2 of B, and for
\* B = 128 the luminance sent is 50 and the published brightness is 128.
C15_RoundTripOriginal ==
    RoundTripDone =>
        /\ state_topic.state = "ON"
        /\ Abs(state_topic.brightness - cmd.brightness.val) <= 2
        /\ cmd.brightness.val = 128
              => (cmd.lum = LumVal(50) /\ state_topic.brightness = 128)

\* C15 amended: the brightness read back is ON and within 2 of B, and for
\* B = 128 the luminance sent is 50 and the published brightness is 127.
C15_RoundTrip ==
    RoundTripDone =>
        /\ state_topic.state = "ON"
        /\ Abs(state_topic.brightness - cmd.brightness.val) <= 2
        /\ cmd.brightness.val = 128
              => (cmd.lum = LumVal(50) /\ state_topic.brightness = 127)

\* The round trip of B = 128 has ended with 127 on the state topic.
C15_Witness ==
    /\ RoundTripDone
    /\ cmd.brightness.val = 128
    /\ state_topic = MkState("ON", 127)

\* ================================================= successive publications
\* A third specification runs publish_state again and again (from on_connect
\* and from the polling thread) while the cloud holds one luminance of
\* 0..MaxLuminance throughout and every read succeeds.
IdemInit ==
    /\ pc = [t \in Threads |-> IF t = "main" THEN "created" ELSE "notstarted"]
    /\ handler = "none"
    /\ state_lock = "free"
    /\ current_state = [t \in Threads |-> NoState]
    /\ cloud \in 0..MaxLuminance
    /\ state_topic = NoState
    /\ availability = NoMsg
    /\ will = NoMsg
    /\ subscribed = FALSE
    /\ connected = FALSE
    /\ reconnected = FALSE
    /\ retain \in BOOLEAN
    /\ cmd = CmdNone
    /\ connLog = <<>>
    /\ lastGood = NoState
    /\ topicBefore = [t \in Threads |-> NoState]
    /\ msg = NoPayload
    /\ escaped = [t \in Threads |-> FALSE]
    /\ response = NoResponse

IdemNext ==
    \/ Start
    \/ \E rc \in RCs : OnConnect(rc)
    \/ OnDisconnect
    \/ MainReturn
    \/ Tick
    \/ \E t \in Threads : PsAcquire(t)
    \/ \E t \in Threads : PsGet(t, LumResponse)
    \/ \E t \in Threads : PsPublish(t)
    \/ \E t \in Threads : PsRelease(t)

IdemSpec == IdemInit /\ [][IdemNext]_vars

\* C16: with the cloud state unchanged and every read succeeding, each
\* publish_state invocation publishes its state, and the message it
\* publishes is identical to the one published before it.
C16_Idempotent ==
    /\ [](\A t \in Threads : pc[t] = "ps_release"
              => (current_state[t] # NoState
                    /\ state_topic = current_state[t]))
    /\ [][state_topic # NoState => state_topic' = state_topic]_vars

\* The polling thread has published while a message of an earlier
\* invocation was on the topic, and the two are the same.
C16_Witness ==
    /\ pc["poll"] = "ps_release"
    /\ topicBefore["poll"] # NoState
    /\ state_topic = topicBefore["poll"]
    /\ state_topic.state = "ON"

\* ====================================================== contention, fairly
\* A fourth specification for what happens eventually.  It delivers two
\* well-formed commands and the malformed payloads, and states the progress
\* the code's scheduling gives: a cloud read returns (the requests carry a
\* timeout), a thread inside publish_state goes on to publish and to release
\* the lock, and a thread blocked on the lock gets it when it is released
\* again and again: after a release the releasing thread sleeps (the polling
\* interval, the settle delay) or waits for the broker before it asks for
\* the lock again, while the blocked thread is woken by the release.
FairPayloads ==
    {p \in Payloads : \/ p.kind # "object"
                      \/ p.state = "OFF" /\ p.brightness = BriAbsent
                      \/ p.state = "ON" /\ p.brightness = BriInt(128)}

FairNext ==
    \/ Start
    \/ \E rc \in RCs : OnConnect(rc)
    \/ OnDisconnect
    \/ \E p \in FairPayloads : Deliver(p)
    \/ OnMessage
    \/ \E resp \in SetResponses : SetResponse(resp)
    \/ Settle
    \/ MainReturn
    \/ Tick
    \/ \E t \in Threads : PsAcquire(t)
    \/ \E t \in Threads, resp \in GetResponses : PsGet(t, resp)
    \/ \E t \in Threads : PsPublish(t)
    \/ \E t \in Threads : PsRelease(t)
    \/ \E v \in LumSamples : CloudChange(v)

Fairness ==
    \A t \in Threads :
        /\ SF_vars(PsAcquire(t))
        /\ WF_vars(\E resp \in GetResponses : PsGet(t, resp))
        /\ WF_vars(PsPublish(t))
        /\ WF_vars(PsRelease(t))

FairSpec == Init /\ [][FairNext]_vars /\ Fairness

\* C17: a publish_state invocation that finds the lock taken waits; it
\* leaves the wait only by taking the free lock and going on to its own
\* get_state (it is never dropped or merged with the running one), and it
\* does so eventually.
C17_BlockedThenOwnRead ==
    /\ [][\A t \in Threads :
            (pc[t] = "ps_acquire" /\ pc'[t] # "ps_acquire")
              => (state_lock = "free" /\ state_lock' = t
                    /\ pc'[t] = "ps_get")]_vars
    /\ \A t \in Threads : (pc[t] = "ps_acquire") ~> (pc[t] = "ps_get")

\* A periodic tick waits for the lock while the connect-triggered refresh is
\* inside publish_state.
C17_Witness ==
    /\ pc["poll"] = "ps_acquire"
    /\ InSection("main")
    /\ handler = "connect"

\* ============================================ further claims under Spec

\* C18: get_state returns a device state only for a response with flag true
\* and a data object that contains a luminance field; for every other
\* response publish_state has no state to publish.
C18_StateOnlyWithLuminance ==
    \A t \in Threads : pc[t] = "ps_publish" => response.body = "lum"

\* C19: no two controller calls of different threads are in progress at the
\* same time (set_state's request of the main thread, get_state's request of
\* the polling thread).
C19_NoConcurrentControllerCalls ==
    ~(pc["main"] = "om_post" /\ pc["poll"] = "ps_get")

====
